---- MODULE Spec2Model ----
(***************************************************************************)
(* TCFProcessor (src/main.py): a decoded consent record is joined against  *)
(* a vendor catalog (GVL) and a CMP registry.                              *)
(*                                                                         *)
(* Python values are modelled as follows.                                  *)
(*   dict          a function; the empty dict is the empty function        *)
(*   list          a sequence                                              *)
(*   None / x      the optional <<>> / <<x>> where a value may be None     *)
(*   ordered dict  (the consent maps, whose iteration order is observable) *)
(*                 a sequence of [id, val] items with distinct ids         *)
(*   parsed JSON   [t |-> "dict", d |-> function] or [t |-> "list"], so    *)
(*                 that isinstance and a failing .get/.items can be told   *)
(***************************************************************************)
EXTENDS Integers, Sequences, FiniteSets, TLC

VARIABLES
    consent_input,      \* the constructor's consent_string argument
    gvl_source,         \* what is stored at gvl_filepath
    cmp_source,         \* what is stored at cmp_list_filepath
    pc,                 \* position of the constructor / of the caller
    consent_string,     \* self.consent_string
    gvl_data,           \* self.gvl_data
    gvl_vendors_dict,   \* self.gvl_vendors_dict
    cmp_list_data,      \* self.cmp_list_data
    cmp_list_dict,      \* self.cmp_list_dict
    consent_object,     \* self.consent_object
    error_state,        \* self.error_state
    decode_calls,       \* number of invocations of iab_tcf.decode
    call,               \* the public method last called and its arguments
    result              \* what that call returned

vars == <<consent_input, gvl_source, cmp_source, pc, consent_string, gvl_data,
          gvl_vendors_dict, cmp_list_data, cmp_list_dict, consent_object,
          error_state, decode_calls, call, result>>

fields == <<consent_string, gvl_data, gvl_vendors_dict, cmp_list_data,
            cmp_list_dict, consent_object, error_state>>

env == <<consent_input, gvl_source, cmp_source>>

----------------------------------------------------------------------------
\* Bounds of the model.

\* purpose / feature IDs asked for range over 1..MaxId
MaxId == 2
\* a required-ID list has at most MaxReqLen elements
MaxReqLen == 2

----------------------------------------------------------------------------
\* Python values.

None == <<>>
Some(x) == <<x>>
IsNone(o) == Len(o) = 0
Val(o) == o[1]

EmptyDict == <<>>
DictGet(d, k, default) == IF k \in DOMAIN d THEN d[k] ELSE default
\* truthiness of a dict: a dict is true iff it has a key
DictTruth(d) == DOMAIN d # {}

Digit(d) == <<"0", "1", "2", "3", "4", "5", "6", "7", "8", "9">>[d + 1]

RECURSIVE PyStr(_)
\* str(n) for a non-negative int n
PyStr(n) == IF n < 10 THEN Digit(n) ELSE PyStr(n \div 10) \o Digit(n % 10)

\* set(list)
RECURSIVE ToSet(_)
ToSet(l) == IF Len(l) = 0 THEN {} ELSE {Head(l)} \cup ToSet(Tail(l))

Min(S) == CHOOSE x \in S : \A y \in S : x <= y

\* sorted(list(set))
RECURSIVE Sorted(_)
Sorted(S) == IF S = {} THEN <<>> ELSE <<Min(S)>> \o Sorted(S \ {Min(S)})

JNull == [t |-> "null", d |-> EmptyDict]
JList == [t |-> "list", d |-> EmptyDict]
JDict(d) == [t |-> "dict", d |-> d]

----------------------------------------------------------------------------
\* The inputs the model draws from.

\* vendor catalog entries: all fourteen fields, some fields, no field
EntryFull ==
    [id |-> 10, name |-> "Alpha", purposes |-> <<1, 3>>, legIntPurposes |-> <<2>>,
     flexiblePurposes |-> <<2>>, specialPurposes |-> <<1>>, features |-> <<1, 2>>,
     specialFeatures |-> <<1>>, policyUrl |-> "https://alpha/policy",
     cookieMaxAgeSeconds |-> Some(3600), usesCookies |-> TRUE, cookieRefresh |-> TRUE,
     usesNonCookieAccess |-> FALSE, deviceStorageDisclosureUrl |-> "https://alpha/dsd"]
EntryNamed ==
    [name |-> "Beta", purposes |-> <<2>>, specialFeatures |-> <<2, 1>>,
     usesCookies |-> FALSE, usesNonCookieAccess |-> TRUE]
EntryNoName ==
    [purposes |-> <<2, 1, 2>>, features |-> <<2>>, specialPurposes |-> <<2>>,
     flexiblePurposes |-> <<1, 2>>, usesCookies |-> TRUE,
     policyUrl |-> "https://gamma/policy"]
EntryEmpty == [k \in {} |-> TRUE]

CatalogKeys == {"10", "30"}
\* the entries a catalog may hold under each key
EntriesFor(k) ==
    IF k = "10" THEN {EntryFull, EntryNoName, EntryEmpty}
    ELSE {EntryFull, EntryNamed, EntryEmpty}
Catalogs ==
    UNION {{c \in [S -> {EntryFull, EntryNamed, EntryNoName, EntryEmpty}] :
                \A k \in S : c[k] \in EntriesFor(k)} : S \in SUBSET CatalogKeys}

GvlSources ==
    {[kind |-> "missing", data |-> JNull], [kind |-> "badjson", data |-> JNull]}
    \cup {[kind |-> "json", data |-> j] : j \in
            {JList, JDict([vendorListVersion |-> JNull]),
             JDict([vendorListVersion |-> JNull, vendors |-> JList])}}
    \cup {[kind |-> "json", data |-> JDict([vendorListVersion |-> JNull, vendors |-> JDict(c)])] :
            c \in Catalogs}
    \cup {[kind |-> "json", data |-> JDict(c)] :
            c \in {k \in Catalogs : DOMAIN k = CatalogKeys /\ k["10"] = EntryFull
                                                          /\ k["30"] # EntryFull}}

\* CMP registries; an id of an entry is a JSON number, which may be null
CmpEntry == [id |-> Some(7), name |-> "CMP Seven", isCommercial |-> TRUE]
CmpZero == [id |-> Some(0), name |-> "CMP Zero"]
RegistryA == [k \in {"0", "7", "5"} |-> IF k = "0" THEN CmpZero ELSE IF k = "7" THEN CmpEntry ELSE EntryEmpty]
RegistryB == [k \in {"7"} |-> CmpEntry]

CmpSources ==
    {[kind |-> "missing", data |-> JNull], [kind |-> "badjson", data |-> JNull]}
    \cup {[kind |-> "json", data |-> j] : j \in
            {JList, JDict([lastUpdated |-> JNull, cmps |-> JList]),
             JDict([lastUpdated |-> JNull, cmps |-> JDict(RegistryA)]),
             JDict(RegistryB)}}

\* the constructor argument: a str, or something that is not a str
ConsentInputs ==
    {[isStr |-> FALSE, s |-> ""], [isStr |-> TRUE, s |-> ""], [isStr |-> TRUE, s |-> "CQOK"]}

Item(i, b) == [id |-> i, val |-> b]

\* what iab_tcf.decode can return
ConsentObjects ==
    {[version |-> Some(2), cmp_id |-> Some(7),
      created |-> [type |-> "datetime", ok |-> TRUE, text |-> "2024-01-01"],
      consent_language |-> [type |-> "bytes", ok |-> TRUE, text |-> "EN"],
      consented_vendors |-> <<Item(10, TRUE), Item(20, FALSE), Item(30, TRUE)>>,
      legitimate_interest_vendors |-> <<Item(20, TRUE), Item(10, FALSE)>>],
     [version |-> Some(2), cmp_id |-> Some(0),
      created |-> [type |-> "datetime", ok |-> FALSE, text |-> "9999-12-31"],
      consented_vendors |-> <<Item(30, TRUE), Item(10, TRUE), Item(20, TRUE)>>,
      legitimate_interest_vendors |-> <<Item(30, TRUE), Item(10, TRUE)>>],
     [cmp_id |-> None,
      consent_language |-> [type |-> "bytes", ok |-> FALSE, text |-> "??"],
      consented_vendors |-> <<Item(10, FALSE), Item(30, FALSE)>>,
      legitimate_interest_vendors |-> <<>>],
     [version |-> Some(1), consented_vendors |-> <<Item(20, TRUE), Item(10, TRUE)>>],
     [cmp_id |-> Some(5), legitimate_interest_vendors |-> <<Item(10, TRUE)>>]}

DecodeErrors == {"invalid base64"}

----------------------------------------------------------------------------
\* __init__

\* the state after lines 47-62 of the constructor
Init ==
    /\ consent_input \in ConsentInputs
    /\ gvl_source \in GvlSources
    /\ cmp_source \in CmpSources
    /\ pc = "load_gvl"
    /\ consent_string = IF consent_input.isStr THEN consent_input.s ELSE ""
    /\ gvl_data = None
    /\ gvl_vendors_dict = EmptyDict
    /\ cmp_list_data = None
    /\ cmp_list_dict = EmptyDict
    /\ consent_object = None
    /\ error_state = None
    /\ decode_calls = 0
    /\ call = [op |-> "none", args |-> <<>>]
    /\ result = None

\* {str(k): v for k, v in d.items()}; the keys of a parsed JSON object are
\* already strings, and str() of a str is that str
StrKeys(d) == [k \in DOMAIN d |-> d[k]]

\* mutant: without a 'vendors' key the top-level mapping is taken as the
\* collection, as _load_cmp_list does with 'cmps'
GvlIndexFallsBack(src) ==
    IF src.kind # "json" THEN EmptyDict
    ELSE IF src.data.t # "dict" THEN EmptyDict
    ELSE LET vendors == DictGet(src.data.d, "vendors", src.data)
         IN IF vendors.t # "dict" THEN EmptyDict
            ELSE StrKeys(vendors.d)

\* the value _load_gvl leaves in self.gvl_vendors_dict
GvlIndex(src) ==
    IF src.kind # "json" THEN EmptyDict                    \* lines 84-89
    ELSE IF src.data.t # "dict" THEN EmptyDict             \* .get raises, line 90
    ELSE LET vendors == DictGet(src.data.d, "vendors", JDict(EmptyDict))
         IN IF vendors.t # "dict" THEN EmptyDict           \* .items raises, line 90
            ELSE StrKeys(vendors.d)

\* the value _load_gvl leaves in self.gvl_data
Parsed(src) == IF src.kind = "json" THEN Some(src.data) ELSE None

_load_gvl ==
    /\ pc = "load_gvl"
    /\ gvl_data' = Parsed(gvl_source)
    /\ gvl_vendors_dict' = GvlIndex(gvl_source)
    /\ pc' = "load_cmp"
    /\ UNCHANGED <<env, consent_string, cmp_list_data, cmp_list_dict, consent_object,
                   error_state, decode_calls, call, result>>

\* mutant: a 'cmps' value that is no dict is passed over for the root mapping
CmpIndexFallsBack(src) ==
    IF src.kind # "json" THEN EmptyDict
    ELSE IF src.data.t # "dict" THEN EmptyDict
    ELSE LET potential_dict == DictGet(src.data.d, "cmps", src.data)
         IN IF potential_dict.t # "dict" THEN StrKeys(src.data.d)
            ELSE StrKeys(potential_dict.d)

\* the value _load_cmp_list leaves in self.cmp_list_dict
CmpIndex(src) ==
    IF src.kind # "json" THEN EmptyDict                    \* lines 120-125
    ELSE IF src.data.t # "dict" THEN EmptyDict             \* line 118
    ELSE LET potential_dict == DictGet(src.data.d, "cmps", src.data)
         IN IF potential_dict.t # "dict" THEN EmptyDict    \* line 115
            ELSE StrKeys(potential_dict.d)

_load_cmp_list ==
    /\ pc = "load_cmp"
    /\ cmp_list_data' = Parsed(cmp_source)
    /\ cmp_list_dict' = CmpIndex(cmp_source)
    /\ pc' = "decode"
    /\ UNCHANGED <<env, consent_string, gvl_data, gvl_vendors_dict, consent_object,
                   error_state, decode_calls, call, result>>

\* mutant: no short-circuit, the empty string is handed to the decoder
DecodeEmptyCallsDecoder ==
    /\ consent_string = ""
    /\ decode_calls' = decode_calls + 1
    /\ error_state' = Some("Failed to decode TCF string: empty")
    /\ consent_object' = None

DecodeEmpty ==
    /\ consent_string = ""
    /\ error_state' = Some("Consent string is empty.")
    /\ consent_object' = None
    /\ UNCHANGED decode_calls

DecodeOk(obj) ==
    /\ consent_string # ""
    /\ decode_calls' = decode_calls + 1
    /\ consent_object' = Some(obj)
    /\ UNCHANGED error_state

\* mutant: a failed decoding records the error and keeps a consent record
DecodeRaisesKeepsObject(e) ==
    /\ consent_string # ""
    /\ decode_calls' = decode_calls + 1
    /\ error_state' = Some("Failed to decode TCF string: " \o e)
    /\ consent_object' = Some(CHOOSE o \in ConsentObjects :
                                  "cmp_id" \in DOMAIN o /\ o.cmp_id = Some(7))

DecodeRaises(e) ==
    /\ consent_string # ""
    /\ decode_calls' = decode_calls + 1
    /\ error_state' = Some("Failed to decode TCF string: " \o e)
    /\ consent_object' = None

_decode_tcf ==
    /\ pc = "decode"
    /\ \/ DecodeEmpty
       \/ \E obj \in ConsentObjects : DecodeOk(obj)
       \/ \E e \in DecodeErrors : DecodeRaises(e)
    /\ pc' = "ready"
    /\ UNCHANGED <<env, consent_string, gvl_data, gvl_vendors_dict, cmp_list_data,
                   cmp_list_dict, call, result>>

----------------------------------------------------------------------------
\* Helpers of the query methods.

HasAttr(obj, a) == a \in DOMAIN obj

\* mutant: the index is searched with the int vendor_id, not with its string
\* form; the keys are strings, so every lookup misses
GvlDataIntKey(vendor_id) == EmptyDict

\* mutant: an empty index yields a placeholder entry instead of a miss
GvlDataPlaceholder(vendor_id) ==
    IF ~DictTruth(gvl_vendors_dict) THEN [name |-> "unknown (GVL not loaded)"]
    ELSE DictGet(gvl_vendors_dict, PyStr(vendor_id), EmptyDict)

_get_vendor_gvl_data(vendor_id) ==
    IF ~DictTruth(gvl_vendors_dict) THEN EmptyDict
    ELSE DictGet(gvl_vendors_dict, PyStr(vendor_id), EmptyDict)

\* lines 183-191: the name of a vendor detail record
DetailName(vendor_gvl_data) ==
    LET is_gvl_loaded == DictTruth(gvl_vendors_dict)
    IN IF ~is_gvl_loaded THEN "unknown (GVL not loaded)"
       ELSE IF ~DictTruth(vendor_gvl_data) THEN "unknown (Not in GVL)"
       ELSE DictGet(vendor_gvl_data, "name", "unknown")

\* mutant: the record's id is the looked-up ID, the entry's own id is ignored
DetailsInputId(vendor_id) ==
    LET vendor_gvl_data == _get_vendor_gvl_data(vendor_id)
    IN [id |-> vendor_id,
        name |-> DetailName(vendor_gvl_data),
        purposes |-> DictGet(vendor_gvl_data, "purposes", <<>>),
        legIntPurposes |-> DictGet(vendor_gvl_data, "legIntPurposes", <<>>),
        flexiblePurposes |-> DictGet(vendor_gvl_data, "flexiblePurposes", <<>>),
        specialPurposes |-> DictGet(vendor_gvl_data, "specialPurposes", <<>>),
        features |-> DictGet(vendor_gvl_data, "features", <<>>),
        specialFeatures |-> DictGet(vendor_gvl_data, "specialFeatures", <<>>),
        policyUrl |-> DictGet(vendor_gvl_data, "policyUrl", ""),
        cookieMaxAgeSeconds |-> DictGet(vendor_gvl_data, "cookieMaxAgeSeconds", None),
        usesCookies |-> DictGet(vendor_gvl_data, "usesCookies", FALSE),
        cookieRefresh |-> DictGet(vendor_gvl_data, "cookieRefresh", FALSE),
        usesNonCookieAccess |-> DictGet(vendor_gvl_data, "usesNonCookieAccess", FALSE),
        deviceStorageDisclosureUrl |->
            DictGet(vendor_gvl_data, "deviceStorageDisclosureUrl", "")]

_get_vendor_details(vendor_id) ==
    LET vendor_gvl_data == _get_vendor_gvl_data(vendor_id)
    IN [id |-> DictGet(vendor_gvl_data, "id", vendor_id),
        name |-> DetailName(vendor_gvl_data),
        purposes |-> DictGet(vendor_gvl_data, "purposes", <<>>),
        legIntPurposes |-> DictGet(vendor_gvl_data, "legIntPurposes", <<>>),
        flexiblePurposes |-> DictGet(vendor_gvl_data, "flexiblePurposes", <<>>),
        specialPurposes |-> DictGet(vendor_gvl_data, "specialPurposes", <<>>),
        features |-> DictGet(vendor_gvl_data, "features", <<>>),
        specialFeatures |-> DictGet(vendor_gvl_data, "specialFeatures", <<>>),
        policyUrl |-> DictGet(vendor_gvl_data, "policyUrl", ""),
        cookieMaxAgeSeconds |-> DictGet(vendor_gvl_data, "cookieMaxAgeSeconds", None),
        usesCookies |-> DictGet(vendor_gvl_data, "usesCookies", FALSE),
        cookieRefresh |-> DictGet(vendor_gvl_data, "cookieRefresh", FALSE),
        usesNonCookieAccess |-> DictGet(vendor_gvl_data, "usesNonCookieAccess", FALSE),
        deviceStorageDisclosureUrl |->
            DictGet(vendor_gvl_data, "deviceStorageDisclosureUrl", "")]

\* mutant: the generic message is returned even when error_state is set
ErrorOrMsgOnly(msg) == msg

\* self.error_state or msg
ErrorOr(msg) == IF IsNone(error_state) THEN msg ELSE Val(error_state)

\* the attributes iab_tcf gives as datetime, and as bytes
DatetimeAttrs == {"created", "last_updated"}
BytesAttrs == {"consent_language", "publisher_cc"}

\* lines 235-253
_safe_get(obj, attr_name) ==
    IF ~HasAttr(obj, attr_name) THEN None
    ELSE LET val == obj[attr_name]
         IN IF attr_name \in DatetimeAttrs
               THEN Some(IF val.ok THEN val.text \o "T00:00:00+00:00" ELSE val.text)
            ELSE IF attr_name \in BytesAttrs
               THEN Some(IF val.ok THEN val.text ELSE "<bytes>")
            ELSE val

MetadataAttr ==
    [tcf_version |-> "version", created |-> "created", last_updated |-> "last_updated",
     cmp_id |-> "cmp_id", cmp_version |-> "cmp_version",
     consent_screen |-> "consent_screen", vendor_list_version |-> "vendor_list_version",
     tcf_policy_version |-> "tcf_policy_version", consent_language |-> "consent_language",
     publisher_cc |-> "publisher_cc", is_service_specific |-> "is_service_specific",
     purpose_one_treatment |-> "purpose_one_treatment",
     use_non_standard_stacks |-> "use_non_standard_stacks"]

----------------------------------------------------------------------------
\* The public query methods: the value each returns.

get_metadata ==
    IF IsNone(consent_object)
    THEN [error |-> ErrorOr("Cannot get metadata, consent object not available (decoding may have failed).")]
    ELSE LET metadata == [k \in DOMAIN MetadataAttr |->
                              _safe_get(Val(consent_object), MetadataAttr[k])]
         IN IF ~IsNone(error_state)
            THEN [k \in DOMAIN metadata \cup {"initialization_error"} |->
                      IF k = "initialization_error" THEN error_state ELSE metadata[k]]
            ELSE metadata

\* mutant: every ID of the map is taken, whatever its value
RECURSIVE TrueIdsAll(_)
TrueIdsAll(items) ==
    IF Len(items) = 0 THEN <<>>
    ELSE <<Head(items).id>> \o TrueIdsAll(Tail(items))

\* [vendor_id for vendor_id, flag in d.items() if flag]
RECURSIVE TrueIds(_)
TrueIds(items) ==
    IF Len(items) = 0 THEN <<>>
    ELSE (IF Head(items).val THEN <<Head(items).id>> ELSE <<>>) \o TrueIds(Tail(items))

get_consented_vendors(include_details) ==
    IF IsNone(consent_object) \/ ~IsNone(error_state) THEN <<>>
    ELSE IF ~HasAttr(Val(consent_object), "consented_vendors") THEN <<>>
    ELSE LET consented_vendor_ids == TrueIds(Val(consent_object).consented_vendors)
         IN IF Len(consented_vendor_ids) = 0 THEN <<>>
            ELSE IF ~include_details THEN consented_vendor_ids
            ELSE [i \in 1..Len(consented_vendor_ids) |->
                      _get_vendor_details(consented_vendor_ids[i])]

\* mutant: the registry is searched before the identifier is tested for 0
CmpDetailsLookupFirst ==
    IF IsNone(consent_object)
    THEN [error |-> ErrorOr("Cannot get CMP details, consent object not available.")]
    ELSE IF ~HasAttr(Val(consent_object), "cmp_id")
    THEN [error |-> "Consent object missing 'cmp_id' attribute."]
    ELSE LET cmp_id == Val(consent_object).cmp_id
             cmp_details == IF IsNone(cmp_id) THEN EmptyDict
                            ELSE DictGet(cmp_list_dict, PyStr(Val(cmp_id)), EmptyDict)
         IN IF DictTruth(cmp_details) THEN cmp_details
            ELSE IF IsNone(cmp_id) \/ Val(cmp_id) = 0
            THEN [id |-> cmp_id, name |-> "unknown (CMP ID not set)"]
            ELSE [id |-> cmp_id, name |-> "unknown (Not found in CMP list)",
                  error |-> "CMP ID " \o PyStr(Val(cmp_id)) \o
                            " not found in the loaded CMP list data."]

\* mutant: the registry is tested for emptiness before the identifier is
\* tested for 0 / None
CmpDetailsRegistryFirst ==
    IF IsNone(consent_object)
    THEN [error |-> ErrorOr("Cannot get CMP details, consent object not available.")]
    ELSE IF ~HasAttr(Val(consent_object), "cmp_id")
    THEN [error |-> "Consent object missing 'cmp_id' attribute."]
    ELSE LET cmp_id == Val(consent_object).cmp_id
         IN IF ~DictTruth(cmp_list_dict)
            THEN [id |-> cmp_id, name |-> "unknown (CMP list not loaded)",
                  error |-> "Cannot get CMP details, CMP list failed to load or is empty."]
            ELSE IF IsNone(cmp_id) \/ Val(cmp_id) = 0
            THEN [id |-> cmp_id, name |-> "unknown (CMP ID not set)"]
            ELSE LET cmp_id_str == PyStr(Val(cmp_id))
                     cmp_details == DictGet(cmp_list_dict, cmp_id_str, EmptyDict)
                 IN IF DictTruth(cmp_details) THEN cmp_details
                    ELSE [id |-> cmp_id, name |-> "unknown (Not found in CMP list)",
                          error |-> "CMP ID " \o cmp_id_str \o
                                    " not found in the loaded CMP list data."]

get_cmp_details ==
    IF IsNone(consent_object)
    THEN [error |-> ErrorOr("Cannot get CMP details, consent object not available.")]
    ELSE IF ~HasAttr(Val(consent_object), "cmp_id")
    THEN [error |-> "Consent object missing 'cmp_id' attribute."]
    ELSE LET cmp_id == Val(consent_object).cmp_id
         IN IF IsNone(cmp_id) \/ Val(cmp_id) = 0
            THEN [id |-> cmp_id, name |-> "unknown (CMP ID not set)"]
            ELSE IF ~DictTruth(cmp_list_dict)
            THEN [id |-> cmp_id, name |-> "unknown (CMP list not loaded)",
                  error |-> "Cannot get CMP details, CMP list failed to load or is empty."]
            ELSE LET cmp_id_str == PyStr(Val(cmp_id))
                     cmp_details == DictGet(cmp_list_dict, cmp_id_str, EmptyDict)
                 IN IF DictTruth(cmp_details) THEN cmp_details
                    ELSE [id |-> cmp_id, name |-> "unknown (Not found in CMP list)",
                          error |-> "CMP ID " \o cmp_id_str \o
                                    " not found in the loaded CMP list data."]

\* d[k] = v on a dict d
Put(d, k, v) == [x \in DOMAIN d \cup {k} |-> IF x = k THEN v ELSE d[x]]

\* mutant: a vendor is reported only when the catalog has an entry for it
RECURSIVE LiLoopCatalogOnly(_, _)
LiLoopCatalogOnly(items, acc) ==
    IF Len(items) = 0 THEN acc
    ELSE LET vendor_id == Head(items).id
             vendor_gvl_data == _get_vendor_gvl_data(vendor_id)
         IN LiLoopCatalogOnly(Tail(items),
                   IF Head(items).val /\ DictTruth(vendor_gvl_data)
                   THEN Put(acc, vendor_id,
                            [name |-> DictGet(vendor_gvl_data, "name", "unknown"),
                             declared_li_purposes |->
                                 DictGet(vendor_gvl_data, "legIntPurposes", <<>>)])
                   ELSE acc)

\* lines 399-407
RECURSIVE LiLoop(_, _)
LiLoop(items, acc) ==
    IF Len(items) = 0 THEN acc
    ELSE LET vendor_id == Head(items).id
             vendor_gvl_data == _get_vendor_gvl_data(vendor_id)
         IN LiLoop(Tail(items),
                   IF Head(items).val
                   THEN Put(acc, vendor_id,
                            [name |-> DictGet(vendor_gvl_data, "name", "unknown"),
                             declared_li_purposes |->
                                 DictGet(vendor_gvl_data, "legIntPurposes", <<>>)])
                   ELSE acc)

get_vendors_using_legitimate_interest ==
    IF IsNone(consent_object) \/ ~IsNone(error_state) THEN EmptyDict
    ELSE IF ~HasAttr(Val(consent_object), "legitimate_interest_vendors") THEN EmptyDict
    ELSE LiLoop(Val(consent_object).legitimate_interest_vendors, EmptyDict)

\* mutant: require_all is ignored and every call is treated as ALL
PassesRequirementAllOnly(intersection_ids, required_id_set, require_all) ==
    intersection_ids # {} /\ intersection_ids = required_id_set

\* mutant: require_all is ignored and every call is treated as ANY
PassesRequirementAnyOnly(intersection_ids, required_id_set, require_all) ==
    intersection_ids # {}

\* lines 463-471
PassesRequirement(intersection_ids, required_id_set, require_all) ==
    IF intersection_ids # {}
    THEN IF require_all THEN intersection_ids = required_id_set ELSE TRUE
    ELSE FALSE

\* lines 452-478
RECURSIVE MatchLoop(_, _, _, _, _)
MatchLoop(items, acc, gvl_list_key, required_id_set, require_all) ==
    IF Len(items) = 0 THEN acc
    ELSE LET vendor_id == Head(items).id
             vendor_gvl_data == _get_vendor_gvl_data(vendor_id)
             declared_ids_set == ToSet(DictGet(vendor_gvl_data, gvl_list_key, <<>>))
             intersection_ids == declared_ids_set \cap required_id_set
         IN MatchLoop(Tail(items),
                      IF Head(items).val
                         /\ PassesRequirement(intersection_ids, required_id_set, require_all)
                      THEN Put(acc, vendor_id,
                               [name |-> DictGet(vendor_gvl_data, "name", "unknown"),
                                matched_ids |-> Sorted(intersection_ids)])
                      ELSE acc,
                      gvl_list_key, required_id_set, require_all)

\* mutant: no guard for an empty required set, and ALL decided by
\* "every required ID is declared", which an empty required set satisfies
RECURSIVE MatchLoopSubset(_, _, _, _, _)
MatchLoopSubset(items, acc, gvl_list_key, required_id_set, require_all) ==
    IF Len(items) = 0 THEN acc
    ELSE LET vendor_id == Head(items).id
             vendor_gvl_data == _get_vendor_gvl_data(vendor_id)
             declared_ids_set == ToSet(DictGet(vendor_gvl_data, gvl_list_key, <<>>))
             intersection_ids == declared_ids_set \cap required_id_set
         IN MatchLoopSubset(Tail(items),
                      IF Head(items).val
                         /\ (IF require_all THEN required_id_set \subseteq declared_ids_set
                             ELSE intersection_ids # {})
                      THEN Put(acc, vendor_id,
                               [name |-> DictGet(vendor_gvl_data, "name", "unknown"),
                                matched_ids |-> Sorted(intersection_ids)])
                      ELSE acc,
                      gvl_list_key, required_id_set, require_all)

MatchingNoEmptyGuard(gvl_list_key, required_ids, require_all) ==
    IF IsNone(consent_object) \/ ~IsNone(error_state) THEN EmptyDict
    ELSE IF ~HasAttr(Val(consent_object), "consented_vendors") THEN EmptyDict
    ELSE MatchLoopSubset(Val(consent_object).consented_vendors, EmptyDict,
                         gvl_list_key, ToSet(required_ids), require_all)

_get_consented_vendors_matching_gvl_list(gvl_list_key, required_ids, require_all) ==
    IF IsNone(consent_object) \/ ~IsNone(error_state) THEN EmptyDict
    ELSE IF ~HasAttr(Val(consent_object), "consented_vendors") THEN EmptyDict
    ELSE LET required_id_set == ToSet(required_ids)
         IN IF required_id_set = {} THEN EmptyDict
            ELSE MatchLoop(Val(consent_object).consented_vendors, EmptyDict,
                           gvl_list_key, required_id_set, require_all)

get_consented_vendors_for_purposes(purpose_ids, require_all) ==
    _get_consented_vendors_matching_gvl_list("purposes", purpose_ids, require_all)

get_consented_vendors_for_special_purposes(purpose_ids, require_all) ==
    _get_consented_vendors_matching_gvl_list("specialPurposes", purpose_ids, require_all)

get_consented_vendors_for_features(feature_ids, require_all) ==
    _get_consented_vendors_matching_gvl_list("features", feature_ids, require_all)

get_consented_vendors_for_special_features(feature_ids, require_all) ==
    _get_consented_vendors_matching_gvl_list("specialFeatures", feature_ids, require_all)

get_consented_vendors_for_flexible_purposes(purpose_ids, require_all) ==
    _get_consented_vendors_matching_gvl_list("flexiblePurposes", purpose_ids, require_all)

get_vendor_urls(vendor_id) ==
    IF ~DictTruth(gvl_vendors_dict)
    THEN [policyUrl |-> "", deviceStorageDisclosureUrl |-> "",
          error |-> "GVL not loaded or empty"]
    ELSE LET vendor_gvl_data == _get_vendor_gvl_data(vendor_id)
         IN IF ~DictTruth(vendor_gvl_data)
            THEN [policyUrl |-> "", deviceStorageDisclosureUrl |-> "",
                  error |-> "Vendor ID " \o PyStr(vendor_id) \o " not found in GVL"]
            ELSE [policyUrl |-> DictGet(vendor_gvl_data, "policyUrl", ""),
                  deviceStorageDisclosureUrl |->
                      DictGet(vendor_gvl_data, "deviceStorageDisclosureUrl", "")]

\* mutant: the consent value is not consulted
RECURSIVE FlagLoopAnyConsent(_, _, _)
FlagLoopAnyConsent(items, acc, gvl_flag_key) ==
    IF Len(items) = 0 THEN acc
    ELSE LET vendor_id == Head(items).id
             vendor_gvl_data == _get_vendor_gvl_data(vendor_id)
         IN FlagLoopAnyConsent(Tail(items),
                     IF DictGet(vendor_gvl_data, gvl_flag_key, FALSE)
                     THEN Put(acc, vendor_id, DictGet(vendor_gvl_data, "name", "unknown"))
                     ELSE acc,
                     gvl_flag_key)

\* lines 621-626
RECURSIVE FlagLoop(_, _, _)
FlagLoop(items, acc, gvl_flag_key) ==
    IF Len(items) = 0 THEN acc
    ELSE LET vendor_id == Head(items).id
             vendor_gvl_data == _get_vendor_gvl_data(vendor_id)
         IN FlagLoop(Tail(items),
                     IF Head(items).val /\ DictGet(vendor_gvl_data, gvl_flag_key, FALSE)
                     THEN Put(acc, vendor_id, DictGet(vendor_gvl_data, "name", "unknown"))
                     ELSE acc,
                     gvl_flag_key)

_get_consented_vendors_by_gvl_flag(gvl_flag_key) ==
    IF IsNone(consent_object) \/ ~IsNone(error_state) THEN EmptyDict
    ELSE IF ~HasAttr(Val(consent_object), "consented_vendors") THEN EmptyDict
    ELSE FlagLoop(Val(consent_object).consented_vendors, EmptyDict, gvl_flag_key)

get_consented_vendors_using_cookies == _get_consented_vendors_by_gvl_flag("usesCookies")

get_consented_vendors_using_non_cookie_access ==
    _get_consented_vendors_by_gvl_flag("usesNonCookieAccess")

----------------------------------------------------------------------------
\* The caller: a constructed processor is queried, one call at a time.

\* the vendor IDs and required-ID lists the caller asks about
VendorArgs == {10, 20, 30}
ReqLists == UNION {[1..n -> 1..MaxId] : n \in 0..MaxReqLen}

\* a method is called on a constructed processor and returns r
\* mutant: a call consumes the consent record
InvokeDropsRecord(op, args, r) ==
    /\ pc = "ready"
    /\ pc' = "returned"
    /\ call' = [op |-> op, args |-> args]
    /\ result' = r
    /\ consent_object' = None
    /\ UNCHANGED <<env, consent_string, gvl_data, gvl_vendors_dict, cmp_list_data,
                   cmp_list_dict, error_state, decode_calls>>

Invoke(op, args, r) ==
    /\ pc = "ready"
    /\ pc' = "returned"
    /\ call' = [op |-> op, args |-> args]
    /\ result' = r
    /\ UNCHANGED <<env, fields, decode_calls>>

CallVendorDetails ==
    \E v \in VendorArgs : Invoke("_get_vendor_details", <<v>>, _get_vendor_details(v))

CallMetadata == Invoke("get_metadata", <<>>, get_metadata)

CallConsentedVendors ==
    \E d \in BOOLEAN : Invoke("get_consented_vendors", <<d>>, get_consented_vendors(d))

CallCmpDetails == Invoke("get_cmp_details", <<>>, get_cmp_details)

CallLegitimateInterest ==
    Invoke("get_vendors_using_legitimate_interest", <<>>,
           get_vendors_using_legitimate_interest)

CallForPurposes ==
    \E ids \in ReqLists, all \in BOOLEAN :
        Invoke("get_consented_vendors_for_purposes", <<"purposes", ids, all>>,
               get_consented_vendors_for_purposes(ids, all))

CallForSpecialPurposes ==
    \E ids \in ReqLists, all \in BOOLEAN :
        Invoke("get_consented_vendors_for_special_purposes", <<"specialPurposes", ids, all>>,
               get_consented_vendors_for_special_purposes(ids, all))

CallForFeatures ==
    \E ids \in ReqLists, all \in BOOLEAN :
        Invoke("get_consented_vendors_for_features", <<"features", ids, all>>,
               get_consented_vendors_for_features(ids, all))

CallForSpecialFeatures ==
    \E ids \in ReqLists, all \in BOOLEAN :
        Invoke("get_consented_vendors_for_special_features", <<"specialFeatures", ids, all>>,
               get_consented_vendors_for_special_features(ids, all))

CallForFlexiblePurposes ==
    \E ids \in ReqLists, all \in BOOLEAN :
        Invoke("get_consented_vendors_for_flexible_purposes", <<"flexiblePurposes", ids, all>>,
               get_consented_vendors_for_flexible_purposes(ids, all))

CallVendorUrls ==
    \E v \in VendorArgs : Invoke("get_vendor_urls", <<v>>, get_vendor_urls(v))

CallUsingCookies ==
    Invoke("get_consented_vendors_using_cookies", <<>>, get_consented_vendors_using_cookies)

CallUsingNonCookieAccess ==
    Invoke("get_consented_vendors_using_non_cookie_access", <<>>,
           get_consented_vendors_using_non_cookie_access)

\* the value method c.op returns for the arguments c.args in the current state
MethodResult(c) ==
    CASE c.op = "_get_vendor_details" -> _get_vendor_details(c.args[1])
      [] c.op = "get_metadata" -> get_metadata
      [] c.op = "get_consented_vendors" -> get_consented_vendors(c.args[1])
      [] c.op = "get_cmp_details" -> get_cmp_details
      [] c.op = "get_vendors_using_legitimate_interest" ->
             get_vendors_using_legitimate_interest
      [] c.op = "get_consented_vendors_for_purposes" ->
             get_consented_vendors_for_purposes(c.args[2], c.args[3])
      [] c.op = "get_consented_vendors_for_special_purposes" ->
             get_consented_vendors_for_special_purposes(c.args[2], c.args[3])
      [] c.op = "get_consented_vendors_for_features" ->
             get_consented_vendors_for_features(c.args[2], c.args[3])
      [] c.op = "get_consented_vendors_for_special_features" ->
             get_consented_vendors_for_special_features(c.args[2], c.args[3])
      [] c.op = "get_consented_vendors_for_flexible_purposes" ->
             get_consented_vendors_for_flexible_purposes(c.args[2], c.args[3])
      [] c.op = "get_vendor_urls" -> get_vendor_urls(c.args[1])
      [] c.op = "get_consented_vendors_using_cookies" ->
             get_consented_vendors_using_cookies
      [] c.op = "get_consented_vendors_using_non_cookie_access" ->
             get_consented_vendors_using_non_cookie_access

\* the caller makes the call it has just made once more, with the same arguments
CallAgain ==
    /\ pc = "returned"
    /\ pc' = "returned"
    /\ call' = call
    /\ result' = MethodResult(call)
    /\ UNCHANGED <<env, fields, decode_calls>>

\* the caller takes the returned value; the processor is ready for the next call
Return ==
    /\ pc = "returned"
    /\ pc' = "ready"
    /\ call' = [op |-> "none", args |-> <<>>]
    /\ result' = None
    /\ UNCHANGED <<env, fields, decode_calls>>

Next ==
    \/ _load_gvl \/ _load_cmp_list \/ _decode_tcf
    \/ CallVendorDetails \/ CallMetadata \/ CallConsentedVendors \/ CallCmpDetails
    \/ CallLegitimateInterest \/ CallForPurposes \/ CallForSpecialPurposes
    \/ CallForFeatures \/ CallForSpecialFeatures \/ CallForFlexiblePurposes
    \/ CallVendorUrls \/ CallUsingCookies \/ CallUsingNonCookieAccess
    \/ CallAgain
    \/ Return

Spec == Init /\ [][Next]_vars
----------------------------------------------------------------------------
\* Vocabulary of the properties.

Constructed == pc \in {"ready", "returned"}
Returned(op) == pc = "returned" /\ call.op = op

MatcherOps ==
    {"get_consented_vendors_for_purposes", "get_consented_vendors_for_special_purposes",
     "get_consented_vendors_for_features", "get_consented_vendors_for_special_features",
     "get_consented_vendors_for_flexible_purposes"}
MatcherReturned == pc = "returned" /\ call.op \in MatcherOps

\* the processor holds a consent record with a consent map, and no error
HasConsentMap ==
    /\ ~IsNone(consent_object)
    /\ IsNone(error_state)
    /\ "consented_vendors" \in DOMAIN Val(consent_object)
ConsentMap == Val(consent_object).consented_vendors

Elems(l) == {l[i] : i \in 1..Len(l)}
\* the vendors whose consent value is true
Consented == {it.id : it \in {x \in Elems(ConsentMap) : x.val}}
InCatalog(v) == PyStr(v) \in DOMAIN gvl_vendors_dict
CatalogEntry(v) == gvl_vendors_dict[PyStr(v)]
\* the IDs vendor v declares under a declaration-list key
Declared(v, key) ==
    IF InCatalog(v) /\ key \in DOMAIN CatalogEntry(v) THEN Elems(CatalogEntry(v)[key]) ELSE {}
Ascending(l) == \A i \in 1..(Len(l) - 1) : l[i] < l[i + 1]

----------------------------------------------------------------------------
\* C1: with require_all = false and a non-empty required-ID list, the matcher
\* returns exactly the vendors whose consent value is true and whose declared
\* list under the key shares an ID with the required IDs; each maps to
\* matched_ids = that intersection as a strictly ascending list (non-empty,
\* within the required IDs); a consented vendor without a catalog entry is
\* left out and the others are still matched.
C1_AnySemantics ==
    (MatcherReturned /\ HasConsentMap /\ ~call.args[3] /\ Elems(call.args[2]) # {}) =>
        LET key == call.args[1]
            req == Elems(call.args[2])
        IN /\ DOMAIN result = {v \in Consented : Declared(v, key) \cap req # {}}
           /\ \A v \in DOMAIN result :
                /\ Elems(result[v].matched_ids) = Declared(v, key) \cap req
                /\ Ascending(result[v].matched_ids)
                /\ Len(result[v].matched_ids) > 0
                /\ Elems(result[v].matched_ids) \subseteq req

\* a consented vendor (20) has no catalog entry, and a vendor iterated after it
\* is matched on two IDs that its declaration lists unsorted and repeated
C1_Witness ==
    /\ MatcherReturned /\ HasConsentMap /\ ~call.args[3]
    /\ call.args[1] = "purposes" /\ call.args[2] = <<2, 1>>
    /\ ConsentMap = <<Item(20, TRUE), Item(10, TRUE)>>
    /\ DOMAIN result = {10}
    /\ result[10].matched_ids = <<1, 2>>

\* C2: with require_all = true and a non-empty required-ID list, a vendor is
\* returned iff its consent value is true and every required ID (as a set) is
\* in its declared list under the key; every returned matched_ids is the full
\* required set; in the scenario of the specification the result is empty.
C2_AllSemantics ==
    (MatcherReturned /\ HasConsentMap /\ call.args[3] /\ Elems(call.args[2]) # {}) =>
        LET key == call.args[1]
            req == Elems(call.args[2])
        IN /\ DOMAIN result = {v \in Consented : req \subseteq Declared(v, key)}
           /\ \A v \in DOMAIN result :
                Elems(result[v].matched_ids) = req /\ Ascending(result[v].matched_ids)
           /\ ( /\ ConsentMap = <<Item(10, TRUE), Item(20, FALSE), Item(30, TRUE)>>
                /\ key = "purposes" /\ call.args[2] = <<1, 2>>
                /\ Declared(10, key) = {1, 3} /\ Declared(30, key) = {2} )
              => DOMAIN result = {}

\* a vendor declaring both required IDs is returned for a required list with a
\* repeated ID, while a consented vendor declaring only one of them is not
C2_Witness ==
    /\ MatcherReturned /\ HasConsentMap /\ call.args[3]
    /\ call.args[1] = "purposes" /\ call.args[2] = <<2, 1>>
    /\ ConsentMap = <<Item(30, TRUE), Item(10, TRUE), Item(20, TRUE)>>
    /\ Declared(10, "purposes") = {1, 2} /\ Declared(30, "purposes") = {2}
    /\ DOMAIN result = {10}
    /\ result[10].matched_ids = <<1, 2>>

\* C3: called with an empty required-ID list, the matcher returns the empty
\* mapping for every key and every require_all.
C3_EmptyRequired ==
    (MatcherReturned /\ Len(call.args[2]) = 0) => DOMAIN result = {}

\* an empty list is asked with require_all = true of a processor whose
\* consented vendors all have catalog entries
C3_Witness ==
    /\ MatcherReturned /\ HasConsentMap /\ call.args[3] /\ Len(call.args[2]) = 0
    /\ Consented = {10, 30}
    /\ InCatalog(10) /\ InCatalog(30)
    /\ DOMAIN result = {}
----------------------------------------------------------------------------
DetailFields ==
    {"id", "name", "purposes", "legIntPurposes", "flexiblePurposes", "specialPurposes",
     "features", "specialFeatures", "policyUrl", "cookieMaxAgeSeconds", "usesCookies",
     "cookieRefresh", "usesNonCookieAccess", "deviceStorageDisclosureUrl"}

\* the default table of the specification
DetailDefault ==
    [purposes |-> <<>>, legIntPurposes |-> <<>>, flexiblePurposes |-> <<>>,
     specialPurposes |-> <<>>, features |-> <<>>, specialFeatures |-> <<>>,
     policyUrl |-> "", deviceStorageDisclosureUrl |-> "", cookieMaxAgeSeconds |-> None,
     usesCookies |-> FALSE, cookieRefresh |-> FALSE, usesNonCookieAccess |-> FALSE]

NameNotLoaded == "unknown (GVL not loaded)"
NameNotInCatalog == "unknown (Not in GVL)"

\* C4: the vendor detail resolver returns, for every vendor ID and catalog
\* state, a record with all fourteen fields; a field the catalog entry has is
\* taken from the entry, and each of the twelve defaulted fields the entry (or
\* the index) lacks has its fixed default.
C4_DetailsTotal ==
    Returned("_get_vendor_details") =>
        LET v == call.args[1]
            entry == IF InCatalog(v) THEN CatalogEntry(v) ELSE EmptyDict
        IN /\ DOMAIN result = DetailFields
           /\ Cardinality(DOMAIN result) = 14
           /\ \A f \in DetailFields \cap DOMAIN entry : result[f] = entry[f]
           /\ \A f \in DOMAIN DetailDefault \ DOMAIN entry : result[f] = DetailDefault[f]

\* a vendor whose entry has some of the fields: those are taken, the rest default
C4_Witness ==
    /\ Returned("_get_vendor_details")
    /\ InCatalog(call.args[1]) /\ CatalogEntry(call.args[1]) = EntryNoName
    /\ result.policyUrl = "https://gamma/policy"
    /\ result.purposes = <<2, 1, 2>>
    /\ result.legIntPurposes = <<>>
    /\ result.cookieMaxAgeSeconds = None
    /\ ~result.usesNonCookieAccess

\* C5: the resolved name is the 'catalog not loaded' placeholder when the index
\* is empty, the 'not in catalog' placeholder when the index is non-empty and
\* the ID is absent, and for an ID that is a key of the index it is the entry's
\* own name, never the 'not in catalog' placeholder.
C5_NameThreeStates ==
    Returned("_get_vendor_details") =>
        LET v == call.args[1]
        IN IF ~DictTruth(gvl_vendors_dict) THEN result.name = NameNotLoaded
           ELSE IF ~InCatalog(v) THEN result.name = NameNotInCatalog
           ELSE /\ result.name # NameNotInCatalog
                /\ "name" \in DOMAIN CatalogEntry(v) => result.name = CatalogEntry(v).name

PlainQueryOps ==
    MatcherOps \cup {"get_vendors_using_legitimate_interest",
                     "get_consented_vendors_using_cookies",
                     "get_consented_vendors_using_non_cookie_access"}

\* what every method but get_vendor_urls returns while the error condition is set
ErrorShapes ==
    /\ call.op \in {"get_metadata", "get_cmp_details"} =>
           result = [error |-> Val(error_state)]
    /\ call.op = "get_consented_vendors" => Len(result) = 0
    /\ call.op \in PlainQueryOps => DOMAIN result = {}

\* the two URL fields of the catalog entry of v, "" where there is none
UrlProjection(v, f) ==
    IF InCatalog(v) /\ f \in DOMAIN CatalogEntry(v) THEN CatalogEntry(v)[f] ELSE ""

\* C6 as stated: while the error condition is set every public query method,
\* get_vendor_urls included, returns its empty or placeholder result whatever
\* the indices contain.
C6_ErrorFirstAllMethods ==
    (pc = "returned" /\ ~IsNone(error_state)) =>
        /\ ErrorShapes
        /\ call.op = "get_vendor_urls" =>
               result.policyUrl = "" /\ result.deviceStorageDisclosureUrl = ""

\* C6 amended: while the error condition is set, metadata and CMP details
\* return {error: the recorded error}, consented vendors the empty list, the
\* legitimate-interest query, the five matchers and the two flag queries the
\* empty mapping, whatever the indices contain; get_vendor_urls does not
\* consult the error condition and returns the catalog's two URL fields.
C6_ErrorFirstButUrls ==
    (pc = "returned" /\ ~IsNone(error_state)) =>
        /\ ErrorShapes
        /\ call.op = "get_vendor_urls" =>
               /\ result.policyUrl = UrlProjection(call.args[1], "policyUrl")
               /\ result.deviceStorageDisclosureUrl =
                      UrlProjection(call.args[1], "deviceStorageDisclosureUrl")

\* the error condition is set and get_vendor_urls returns a URL of the catalog
C6_Witness ==
    /\ Returned("get_vendor_urls") /\ ~IsNone(error_state)
    /\ result.policyUrl = "https://alpha/policy"
    /\ "error" \notin DOMAIN result
----------------------------------------------------------------------------
EmptyStringError == Some("Consent string is empty.")
DecodeFailureErrors == {Some("Failed to decode TCF string: " \o e) : e \in DecodeErrors}

\* C7: construction with an empty or non-string consent string records the
\* error condition and leaves the consent record absent without the decoder
\* being invoked; for a non-empty string the decoder is invoked exactly once,
\* and not before the decoding step; a failure of the decoder is recorded as
\* the error condition, with the consent record absent.
C7_DecoderShortCircuit ==
    /\ ~Constructed => decode_calls = 0 /\ IsNone(consent_object) /\ IsNone(error_state)
    /\ Constructed =>
          IF ~consent_input.isStr \/ consent_input.s = ""
          THEN error_state = EmptyStringError /\ IsNone(consent_object) /\ decode_calls = 0
          ELSE /\ decode_calls = 1
               /\ IsNone(consent_object) <=> ~IsNone(error_state)
               /\ ~IsNone(error_state) => error_state \in DecodeFailureErrors

\* a non-string argument: the error is recorded and the decoder was not invoked
C7_Witness ==
    /\ Constructed /\ ~consent_input.isStr
    /\ error_state = EmptyStringError /\ IsNone(consent_object) /\ decode_calls = 0

\* the ways a reference source fails to load
GvlLoadFails ==
    \/ gvl_source.kind # "json"
    \/ gvl_source.data.t # "dict"
    \/ "vendors" \notin DOMAIN gvl_source.data.d
    \/ gvl_source.data.d.vendors.t # "dict"
CmpLoadFails ==
    \/ cmp_source.kind # "json"
    \/ cmp_source.data.t # "dict"
    \/ ("cmps" \in DOMAIN cmp_source.data.d /\ cmp_source.data.d.cmps.t # "dict")
\* the collection a source that loads holds
GvlCollection == gvl_source.data.d.vendors.d
CmpCollection ==
    IF "cmps" \in DOMAIN cmp_source.data.d THEN cmp_source.data.d.cmps.d
    ELSE cmp_source.data.d

\* C8: a load failure of either reference source leaves that index empty;
\* construction goes on to its next step; the error condition is set by the
\* consent string and the decoder alone; the other source's index is what that
\* source holds, whether or not the first one failed.
C8_LoadFailureIsLocal ==
    /\ pc # "load_gvl" =>
          IF GvlLoadFails THEN DOMAIN gvl_vendors_dict = {}
          ELSE gvl_vendors_dict = GvlCollection
    /\ pc \notin {"load_gvl", "load_cmp"} =>
          IF CmpLoadFails THEN DOMAIN cmp_list_dict = {}
          ELSE cmp_list_dict = CmpCollection
    /\ pc = "load_gvl" => ENABLED _load_gvl
    /\ pc = "load_cmp" => ENABLED _load_cmp_list
    /\ pc = "decode" => IsNone(error_state) /\ ENABLED _decode_tcf
    /\ Constructed =>
          /\ consent_string = "" => error_state = EmptyStringError
          /\ consent_string # "" => error_state \in {None} \cup DecodeFailureErrors
          /\ IsNone(error_state) <=> ~IsNone(consent_object)

\* the vendor catalog is absent and the CMP list has a wrong-shaped 'cmps'; the
\* consent string is decoded and no error is set
C8_Witness ==
    /\ pc = "ready"
    /\ gvl_source.kind = "missing"
    /\ cmp_source.kind = "json" /\ CmpLoadFails
    /\ DOMAIN gvl_vendors_dict = {} /\ DOMAIN cmp_list_dict = {}
    /\ IsNone(error_state) /\ ~IsNone(consent_object)

\* the catalog file is a JSON object
GvlIsObject == gvl_source.kind = "json" /\ gvl_source.data.t = "dict"
\* ... holding the vendor entries beneath the top-level key 'vendors'
GvlNested == GvlIsObject /\ ~GvlLoadFails
\* ... being itself the mapping of vendor IDs to entries
GvlBare ==
    /\ GvlIsObject
    /\ DOMAIN gvl_source.data.d # {}
    /\ DOMAIN gvl_source.data.d \subseteq CatalogKeys

\* C9 as stated: whether the vendor entries are the top-level mapping itself
\* or sit beneath a top-level key, the index contains every entry under the
\* string form of its vendor ID.
C9_IndexEitherShape ==
    /\ (pc # "load_gvl" /\ GvlNested) =>
          \A k \in DOMAIN GvlCollection :
              k \in DOMAIN gvl_vendors_dict /\ gvl_vendors_dict[k] = GvlCollection[k]
    /\ (pc # "load_gvl" /\ GvlBare) =>
          \A k \in DOMAIN gvl_source.data.d :
              k \in DOMAIN gvl_vendors_dict /\ gvl_vendors_dict[k] = gvl_source.data.d[k]

\* C9 amended: the vendor entries are found only beneath the top-level key
\* 'vendors'; the index then contains every entry, and nothing else, under the
\* string form of its vendor ID, so that a vendor ID is resolved to its entry;
\* when the top-level mapping is itself the collection the index is empty.
C9_IndexNestedOnly ==
    /\ (pc # "load_gvl" /\ GvlNested) =>
          /\ DOMAIN gvl_vendors_dict = DOMAIN GvlCollection
          /\ \A k \in DOMAIN GvlCollection : gvl_vendors_dict[k] = GvlCollection[k]
          /\ \A v \in VendorArgs :
                PyStr(v) \in DOMAIN GvlCollection =>
                    _get_vendor_gvl_data(v) = GvlCollection[PyStr(v)]
    /\ (pc # "load_gvl" /\ GvlBare) => DOMAIN gvl_vendors_dict = {}

\* a catalog with two vendors beneath 'vendors' is indexed under "10" and "30"
C9_Witness ==
    /\ pc = "ready" /\ GvlNested
    /\ DOMAIN gvl_vendors_dict = {"10", "30"}
    /\ gvl_vendors_dict["10"] = EntryNoName /\ gvl_vendors_dict["30"] = EntryFull
    /\ _get_vendor_gvl_data(30) = EntryFull

\* C10: when the consent record's CMP identifier is 0 or None, get_cmp_details
\* returns exactly {id: that identifier, name: the 'not set' placeholder}, with
\* no error field, whatever the registry index holds.
C10_CmpNotSet ==
    ( /\ Returned("get_cmp_details") /\ ~IsNone(consent_object)
      /\ "cmp_id" \in DOMAIN Val(consent_object)
      /\ (IsNone(Val(consent_object).cmp_id) \/ Val(Val(consent_object).cmp_id) = 0) )
    => /\ result = [id |-> Val(consent_object).cmp_id, name |-> "unknown (CMP ID not set)"]
       /\ "error" \notin DOMAIN result

\* the identifier is 0 and the registry has an entry under "0"
C10_Witness ==
    /\ Returned("get_cmp_details") /\ ~IsNone(consent_object)
    /\ "cmp_id" \in DOMAIN Val(consent_object)
    /\ Val(consent_object).cmp_id = Some(0)
    /\ "0" \in DOMAIN cmp_list_dict
    /\ result.name = "unknown (CMP ID not set)"
----------------------------------------------------------------------------
\* the consent record is present and has a CMP identifier
HasCmpId == ~IsNone(consent_object) /\ "cmp_id" \in DOMAIN Val(consent_object)
CmpId == Val(consent_object).cmp_id
CmpIdSet == ~IsNone(CmpId) /\ Val(CmpId) # 0
CmpInRegistry == PyStr(Val(CmpId)) \in DOMAIN cmp_list_dict

\* C11: for a consent record with a non-zero CMP identifier whose string form
\* is a key of the registry index, get_cmp_details returns that registry
\* entry itself, whatever the entry contains, an entry with no fields included.
C11_RegistryEntryVerbatim ==
    (Returned("get_cmp_details") /\ HasCmpId /\ CmpIdSet /\ CmpInRegistry) =>
        /\ DOMAIN result = DOMAIN cmp_list_dict[PyStr(Val(CmpId))]
        /\ result = cmp_list_dict[PyStr(Val(CmpId))]

MissingCmpIdError == "Consent object missing 'cmp_id' attribute."
CmpNameNotSet == "unknown (CMP ID not set)"
CmpNameNotLoaded == "unknown (CMP list not loaded)"
CmpNameNotFound == "unknown (Not found in CMP list)"

\* C12: the precondition failures of get_cmp_details are decided in the order
\* no consent record, no CMP-identifier field, identifier 0 / None, registry
\* index empty, identifier not in the index; the first that holds gives the
\* result, and the five results differ from one another: {error: the recorded
\* error}, {error: the missing-field message}, {id, name: not set} without an
\* error, {id, name: list not loaded, error}, {id, name: not found, error}.
C12_CmpFailureOrder ==
    Returned("get_cmp_details") =>
        /\ IsNone(consent_object) =>
              /\ result = [error |-> Val(error_state)]
              /\ result.error # MissingCmpIdError
        /\ (~IsNone(consent_object) /\ ~HasCmpId) => result = [error |-> MissingCmpIdError]
        /\ (HasCmpId /\ ~CmpIdSet) =>
              DOMAIN result = {"id", "name"} /\ result.name = CmpNameNotSet
        /\ (HasCmpId /\ CmpIdSet /\ DOMAIN cmp_list_dict = {}) =>
              /\ DOMAIN result = {"id", "name", "error"}
              /\ result.id = CmpId /\ result.name = CmpNameNotLoaded
        /\ (HasCmpId /\ CmpIdSet /\ DOMAIN cmp_list_dict # {} /\ ~CmpInRegistry) =>
              /\ DOMAIN result = {"id", "name", "error"}
              /\ result.id = CmpId /\ result.name = CmpNameNotFound

\* the identifier is 5 and the registry holds an entry for 7 alone
C12_Witness ==
    /\ Returned("get_cmp_details") /\ HasCmpId /\ CmpId = Some(5)
    /\ DOMAIN cmp_list_dict = {"7"}
    /\ result.name = CmpNameNotFound /\ "error" \in DOMAIN result
----------------------------------------------------------------------------
\* the IDs of the consent map whose value is true, in the map's order
TrueInOrder(map) == LET sel == SelectSeq(map, LAMBDA it : it.val)
                    IN [i \in 1..Len(sel) |-> sel[i].id]

\* C13: get_consented_vendors(False) returns exactly the IDs whose consent
\* value is true, once each, in the map's iteration order;
\* get_consented_vendors(True) returns one vendor detail record per such ID,
\* in the same order and of the same length; both return the empty list when
\* the record is absent, the error is set or the record has no consent map.
C13_ConsentedVendors ==
    Returned("get_consented_vendors") =>
        IF HasConsentMap
        THEN LET ids == TrueInOrder(ConsentMap)
             IN IF call.args[1]
                THEN /\ Len(result) = Len(ids)
                     /\ \A i \in 1..Len(ids) : result[i] = _get_vendor_details(ids[i])
                ELSE /\ result = ids
                     /\ \A i, j \in 1..Len(result) : result[i] = result[j] => i = j
        ELSE Len(result) = 0

\* the map is 30, 10, 20 (all true): the IDs come back in that order
C13_Witness ==
    /\ Returned("get_consented_vendors") /\ HasConsentMap /\ ~call.args[1]
    /\ Len(ConsentMap) = 3 /\ ConsentMap[1].id = 30
    /\ result = <<30, 10, 20>>

\* the processor holds a consent record with a legitimate-interest map, and no error
HasLiMap ==
    /\ ~IsNone(consent_object)
    /\ IsNone(error_state)
    /\ "legitimate_interest_vendors" \in DOMAIN Val(consent_object)
LiMap == Val(consent_object).legitimate_interest_vendors
LiTrue == {it.id : it \in {x \in Elems(LiMap) : x.val}}

\* C14: get_vendors_using_legitimate_interest returns exactly the IDs whose
\* value in the legitimate-interest map is true, whatever the consent map says
\* of them; each maps to the catalog entry's name and legIntPurposes list, the
\* list being empty when the entry or the declaration is missing.
C14_LegitimateInterest ==
    (Returned("get_vendors_using_legitimate_interest") /\ HasLiMap) =>
        /\ DOMAIN result = LiTrue
        /\ \A v \in LiTrue :
              /\ DOMAIN result[v] = {"name", "declared_li_purposes"}
              /\ result[v].declared_li_purposes =
                    IF InCatalog(v) /\ "legIntPurposes" \in DOMAIN CatalogEntry(v)
                    THEN CatalogEntry(v).legIntPurposes ELSE <<>>
              /\ (InCatalog(v) /\ "name" \in DOMAIN CatalogEntry(v)) =>
                    result[v].name = CatalogEntry(v).name

\* vendor 20 has legitimate interest without consent and without a catalog
\* entry; vendor 10 has consent, a catalog entry, and no legitimate interest
C14_Witness ==
    /\ Returned("get_vendors_using_legitimate_interest") /\ HasLiMap /\ HasConsentMap
    /\ LiTrue = {20} /\ 20 \notin Consented /\ 10 \in Consented
    /\ InCatalog(10)
    /\ DOMAIN result = {20} /\ result[20].declared_li_purposes = <<>>

FlagOps == {"get_consented_vendors_using_cookies",
            "get_consented_vendors_using_non_cookie_access"}
FlagOf(op) == IF op = "get_consented_vendors_using_cookies"
              THEN "usesCookies" ELSE "usesNonCookieAccess"
\* the catalog has an entry for v whose flag is present and true
FlagTrue(v, flag) ==
    InCatalog(v) /\ flag \in DOMAIN CatalogEntry(v) /\ CatalogEntry(v)[flag]

\* C15: a flag query returns a vendor, mapped to its catalog name, iff its
\* consent value is true and its catalog entry's flag is true; a vendor without
\* consent, without a catalog entry, or whose entry lacks the flag or has it
\* false is not returned.
C15_FlagQuery ==
    (pc = "returned" /\ call.op \in FlagOps /\ HasConsentMap) =>
        /\ DOMAIN result = {v \in Consented : FlagTrue(v, FlagOf(call.op))}
        /\ \A v \in DOMAIN result :
              "name" \in DOMAIN CatalogEntry(v) => result[v] = CatalogEntry(v).name

\* vendors 10 and 30 consent, only 10 uses cookies
C15_Witness ==
    /\ Returned("get_consented_vendors_using_cookies") /\ HasConsentMap
    /\ {10, 30} \subseteq Consented
    /\ FlagTrue(10, "usesCookies") /\ InCatalog(30) /\ ~FlagTrue(30, "usesCookies")
    /\ DOMAIN result = {10} /\ result[10] = "Alpha"

UrlsNotLoaded == "GVL not loaded or empty"

\* C16: get_vendor_urls returns the two URL fields without a diagnostic when
\* the ID is a key of the catalog index; with an empty index it returns empty
\* URLs and the not-loaded diagnostic; with a non-empty index lacking the ID it
\* returns empty URLs and a different, not-found diagnostic; a diagnostic is
\* present iff the ID is not a key of the index.
C16_UrlDiagnostic ==
    Returned("get_vendor_urls") =>
        LET v == call.args[1]
        IN /\ {"policyUrl", "deviceStorageDisclosureUrl"} \subseteq DOMAIN result
           /\ ("error" \in DOMAIN result) <=> ~InCatalog(v)
           /\ ~InCatalog(v) =>
                 /\ result.policyUrl = "" /\ result.deviceStorageDisclosureUrl = ""
                 /\ (result.error = UrlsNotLoaded) <=> (DOMAIN gvl_vendors_dict = {})
----------------------------------------------------------------------------
\* C17: once the processor is constructed no step of a query changes the
\* consent record, the two indices, the raw documents, the consent string or
\* the error condition, so an error that is set stays set; and a query called
\* again with the same arguments returns the same result.
C17_QueriesArePure ==
    [][Constructed =>
          /\ fields' = fields
          /\ ~IsNone(error_state) => ~IsNone(error_state')
          /\ (pc = "returned" /\ pc' = "returned" /\ call'.op = call.op
                  /\ call'.args = call.args) => result' = result]_vars

\* a matcher has returned a non-empty result on a processor that decoded its
\* string once; the same call can be made again
C17_Witness ==
    /\ Returned("get_consented_vendors_for_purposes") /\ HasConsentMap
    /\ decode_calls = 1
    /\ DOMAIN result # {}
    /\ ENABLED CallAgain
----------------------------------------------------------------------------
\* the vendor IDs the consent record mentions, in either of its maps
RecordIds ==
    IF IsNone(consent_object) THEN {}
    ELSE (IF "consented_vendors" \in DOMAIN Val(consent_object)
          THEN {it.id : it \in Elems(ConsentMap)} ELSE {})
         \cup
         (IF "legitimate_interest_vendors" \in DOMAIN Val(consent_object)
          THEN {it.id : it \in Elems(LiMap)} ELSE {})
\* every catalog lookup for a vendor of the record misses
AllLookupsMiss == \A v \in RecordIds : ~InCatalog(v)
CatalogQueryOps ==
    MatcherOps \cup FlagOps \cup {"get_vendors_using_legitimate_interest"}

\* C18: for the five matchers, the two flag queries and the
\* legitimate-interest query an empty catalog index gives the result that a
\* non-empty catalog holding none of the record's vendor IDs gives for the same
\* consent record: no vendor for the matchers and the flag queries, and for the
\* legitimate-interest query every vendor with a true value, with the name
\* 'unknown' and no declared purposes. The result depends on the record alone.
C18_EmptyIndexIsAllMiss ==
    (pc = "returned" /\ call.op \in CatalogQueryOps /\ AllLookupsMiss) =>
        IF call.op = "get_vendors_using_legitimate_interest"
        THEN IF HasLiMap
             THEN /\ DOMAIN result = LiTrue
                  /\ \A v \in LiTrue :
                        result[v] = [name |-> "unknown", declared_li_purposes |-> <<>>]
             ELSE DOMAIN result = {}
        ELSE DOMAIN result = {}

\* the catalog holds an entry for vendor 30 alone, the record mentions vendor 10
C18_Witness ==
    /\ Returned("get_vendors_using_legitimate_interest") /\ HasLiMap
    /\ DOMAIN gvl_vendors_dict = {"30"} /\ DOMAIN gvl_vendors_dict["30"] # {}
    /\ RecordIds = {10} /\ AllLookupsMiss
    /\ DOMAIN result = {10} /\ result[10].name = "unknown"
----------------------------------------------------------------------------
\* C19: in every state the error condition is set only while the consent
\* record is absent; hence no get_metadata result carries metadata fields
\* together with initialization_error, and get_cmp_details returns at its
\* first check, with the recorded error, whenever the error condition is set.
C19_ErrorExcludesRecord ==
    /\ ~IsNone(error_state) => IsNone(consent_object)
    /\ Returned("get_metadata") =>
          /\ "initialization_error" \notin DOMAIN result
          /\ ~IsNone(error_state) => result = [error |-> Val(error_state)]
          /\ IsNone(error_state) => DOMAIN result = DOMAIN MetadataAttr
    /\ (Returned("get_cmp_details") /\ ~IsNone(error_state)) =>
          result = [error |-> Val(error_state)]

\* the decoder failed: the record is absent and get_metadata reports the error
C19_Witness ==
    /\ Returned("get_metadata")
    /\ error_state \in DecodeFailureErrors /\ decode_calls = 1
    /\ IsNone(consent_object)
    /\ result = [error |-> "Failed to decode TCF string: invalid base64"]
----------------------------------------------------------------------------
\* C20: the id of the i-th record of get_consented_vendors(True) is the i-th
\* ID of get_consented_vendors(False), for every catalog: a vendor's detail
\* record carries the vendor ID that was looked up.
C20_DetailIdIsLookedUpId ==
    /\ (Returned("get_consented_vendors") /\ HasConsentMap /\ call.args[1]) =>
          /\ Len(result) = Len(get_consented_vendors(FALSE))
          /\ \A i \in 1..Len(result) : result[i].id = get_consented_vendors(FALSE)[i]
    /\ Returned("_get_vendor_details") => result.id = call.args[1]

\* the id a detail record carries for the looked-up vendor v
IdCarried(v) ==
    IF InCatalog(v) /\ "id" \in DOMAIN CatalogEntry(v) THEN CatalogEntry(v).id ELSE v

\* C20 (amended): the two lists of get_consented_vendors correspond position
\* by position, and the id of the i-th detail record is the id field of the
\* catalog entry found under the i-th ID when that entry has one, the i-th ID
\* itself otherwise.
C20_DetailIdPrefersEntryId ==
    /\ (Returned("get_consented_vendors") /\ HasConsentMap /\ call.args[1]) =>
          /\ Len(result) = Len(get_consented_vendors(FALSE))
          /\ \A i \in 1..Len(result) :
                result[i].id = IdCarried(get_consented_vendors(FALSE)[i])
    /\ Returned("_get_vendor_details") => result.id = IdCarried(call.args[1])

\* the map is 30, 10, 20 and the entry under "30" carries the id 10
C20_Witness ==
    /\ Returned("get_consented_vendors") /\ HasConsentMap /\ call.args[1]
    /\ get_consented_vendors(FALSE) = <<30, 10, 20>>
    /\ InCatalog(30) /\ "id" \in DOMAIN CatalogEntry(30) /\ CatalogEntry(30).id = 10
    /\ Len(result) = 3 /\ result[1].id = 10 /\ result[3].id = 20
====
